---- MODULE Spec2Model ----
(***************************************************************************)
(* Model of the skills-enhanced Ollama agent:                              *)
(*   local_skills.py          Skill, SkillManager                          *)
(*   enhanced_ollama_agent.py EnhancedOllamaAgent (chat, stream_chat, ...) *)
(*                                                                         *)
(* A Python str is a sequence of one-character strings.  The fixed         *)
(* messages of the program, and the text of an exception, are kept as one  *)
(* atom each: nothing in the program looks inside them.                    *)
(***************************************************************************)
EXTENDS Integers, Sequences, FiniteSets, TLC

\* ------------------------------------------------------------------------
\* Bounds of the model
\* ------------------------------------------------------------------------
MaxTurns == 2

MaxSkillsArg == 3

MaxChildren == 2

MaxSegments == 3

\* ------------------------------------------------------------------------
\* Python str helpers
\* ------------------------------------------------------------------------
\* the upper-case letters that occur in the inputs below
UpperToLower ==
    ("A" :> "a") @@ ("D" :> "d") @@ ("E" :> "e") @@ ("F" :> "f") @@
    ("G" :> "g") @@ ("L" :> "l") @@ ("N" :> "n") @@ ("O" :> "o") @@
    ("P" :> "p") @@ ("R" :> "r") @@ ("S" :> "s") @@ ("T" :> "t")

\* str.lower()

lower(s) ==
    [i \in 1..Len(s) |-> IF s[i] \in DOMAIN UpperToLower THEN UpperToLower[s[i]] ELSE s[i]]

Whitespace == {" ", "\n", "\t"}

RECURSIVE SplitFrom(_, _, _)
SplitFrom(s, i, cur) ==
    IF i > Len(s)
    THEN IF cur = <<>> THEN <<>> ELSE <<cur>>
    ELSE IF s[i] \in Whitespace
         THEN IF cur = <<>> THEN SplitFrom(s, i + 1, <<>>)
                            ELSE <<cur>> \o SplitFrom(s, i + 1, <<>>)
         ELSE SplitFrom(s, i + 1, Append(cur, s[i]))

\* str.split() with no argument: runs of whitespace separate, no empty word
split(s) == SplitFrom(s, 1, <<>>)

\* the Python test  w in t  on two str
IsSubstring(w, t) ==
    \E i \in 0..(Len(t) - Len(w)) : SubSeq(t, i + 1, i + Len(w)) = w

\* the Python slice  s[:n]
SliceTo(s, n) ==
    IF n >= 0
    THEN SubSeq(s, 1, IF n < Len(s) THEN n ELSE Len(s))
    ELSE SubSeq(s, 1, IF Len(s) + n > 0 THEN Len(s) + n ELSE 0)

\* ------------------------------------------------------------------------
\* Python values of the YAML metadata
\* ------------------------------------------------------------------------
Str(t) == [type |-> "str", val |-> t]

NoneValue == [type |-> "NoneType", val |-> <<>>]

IntValue == [type |-> "int", val |-> <<>>]

IsStr(v) == v.type = "str"

\* the exception text of  a + b  on operands that are not both str
TypeErrorText == <<"TypeError: unsupported operand type(s) for +">>

\* the value a turn leaves behind when an exception escapes it
Raised(text) == [raised |-> TRUE, error |-> text]

\* ------------------------------------------------------------------------
\* Skill and SkillManager
\* ------------------------------------------------------------------------
\* A child directory of the skills root: its name, whether it holds SKILL.md,
\* and what the front matter of SKILL.md parses to:
\*   "absent"   no front matter, the whole file is the body
\*   "mapping"  yaml.safe_load gives a dict; fields holds its name and
\*              description entries, "missing" when the key is not there
\*   "null"     an empty metadata block, yaml.safe_load gives None
\*   "scalar"   yaml.safe_load gives a str or a list, which has no get()
\*   "invalid"  yaml.safe_load raises
MissingKey == [type |-> "missing", val |-> <<>>]

\* dict.get(key, default)
DictGet(entry, default) == IF entry.type = "missing" THEN default ELSE entry

LoadFails(dir) == dir.frontmatter \in {"null", "scalar", "invalid"}

_load_skill(dir) ==
    IF dir.frontmatter = "mapping"
    THEN [path        |-> dir.dirname,
          name        |-> DictGet(dir.meta_name, Str(dir.dirname)),
          description |-> DictGet(dir.meta_description, Str(<<>>)),
          content     |-> dir.body]
    ELSE [path        |-> dir.dirname,
          name        |-> Str(dir.dirname),
          description |-> Str(<<>>),
          content     |-> dir.body]

\* a discovery that lets the first failing directory end the loop
RECURSIVE DiscoverFrom_StopsAtFailure(_, _)
DiscoverFrom_StopsAtFailure(children, i) ==
    IF i > Len(children)
    THEN <<>>
    ELSE IF children[i].is_dir /\ children[i].has_manifest
         THEN IF LoadFails(children[i])
              THEN <<>>
              ELSE <<_load_skill(children[i])>> \o DiscoverFrom_StopsAtFailure(children, i + 1)
         ELSE DiscoverFrom_StopsAtFailure(children, i + 1)

RECURSIVE DiscoverFrom(_, _)
DiscoverFrom(children, i) ==
    IF i > Len(children)
    THEN <<>>
    ELSE IF children[i].is_dir /\ children[i].has_manifest /\ ~LoadFails(children[i])
         THEN <<_load_skill(children[i])>> \o DiscoverFrom(children, i + 1)
         ELSE DiscoverFrom(children, i + 1)

\* a constructor that returns without creating the missing directory
mkdir_root_NoMkdir(root) ==
    [exists |-> root.exists, children |-> root.children, created |-> ~root.exists]

\* the skills directory after _discover_skills: a missing one has been created
\* by mkdir(parents=True); created records that this happened
mkdir_root(root) ==
    [exists |-> TRUE, children |-> root.children, created |-> ~root.exists]

\* root = [exists, children]: the skills directory before construction
_discover_skills(root) ==
    IF ~root.exists THEN <<>> ELSE DiscoverFrom(root.children, 1)

\* the keyword score of one skill; only called when name and description are str
\* a count that lets a word of three characters score
RECURSIVE CountWords_ThreeCounts(_, _, _)
CountWords_ThreeCounts(words, i, skill_text) ==
    IF i > Len(words)
    THEN 0
    ELSE (IF Len(words[i]) >= 3 /\ IsSubstring(words[i], skill_text) THEN 1 ELSE 0)
         + CountWords_ThreeCounts(words, i + 1, skill_text)

RECURSIVE CountWords(_, _, _)
CountWords(words, i, skill_text) ==
    IF i > Len(words)
    THEN 0
    ELSE (IF Len(words[i]) > 3 /\ IsSubstring(words[i], skill_text) THEN 1 ELSE 0)
         + CountWords(words, i + 1, skill_text)

SkillText(skill) == lower(skill.name.val \o <<" ">> \o skill.description.val)

Score(user_query, skill) == CountWords(split(lower(user_query)), 1, SkillText(skill))

\* the value of the local  score  at line 154, for each skill of the loop
LoopScores(skills, user_query) ==
    [i \in 1..Len(skills) |-> Score(user_query, skills[i])]

\* name + " " + description raises TypeError unless both are str
ConcatRaises(skill) == ~IsStr(skill.name) \/ ~IsStr(skill.description)

\* a ranking that forgets to drop the skills of score 0
RECURSIVE ScoredFrom_KeepsZero(_, _, _)
ScoredFrom_KeepsZero(user_query, skills, i) ==
    IF i > Len(skills)
    THEN <<>>
    ELSE <<[score |-> Score(user_query, skills[i]), skill |-> skills[i]]>>
         \o ScoredFrom_KeepsZero(user_query, skills, i + 1)

RECURSIVE ScoredFrom(_, _, _)
ScoredFrom(user_query, skills, i) ==
    IF i > Len(skills)
    THEN <<>>
    ELSE LET sc == Score(user_query, skills[i])
         IN  (IF sc > 0 THEN <<[score |-> sc, skill |-> skills[i]]>> ELSE <<>>)
             \o ScoredFrom(user_query, skills, i + 1)

\* a descending sort that is not stable: x goes before the elements of its score
InsertDesc_BeforeEqual(sorted, x) ==
    LET before == {k \in 1..Len(sorted) : sorted[k].score > x.score}
        n == Cardinality(before)
    IN  SubSeq(sorted, 1, n) \o <<x>> \o SubSeq(sorted, n + 1, Len(sorted))

\* position at which list.sort(reverse=True, key=score) leaves x among the
\* already placed elements: after every element whose score is >= x's
InsertDesc(sorted, x) ==
    LET before == {k \in 1..Len(sorted) : sorted[k].score >= x.score}
        n == Cardinality(before)
    IN  SubSeq(sorted, 1, n) \o <<x>> \o SubSeq(sorted, n + 1, Len(sorted))

RECURSIVE SortDescFrom(_, _, _)
SortDescFrom(s, i, acc) ==
    IF i > Len(s) THEN acc ELSE SortDescFrom(s, i + 1, InsertDesc(acc, s[i]))

\* scored_skills.sort(reverse=True, key=lambda x: x[0]): stable, descending
SortByScore(s) == SortDescFrom(s, 1, <<>>)

SelectRaises(skills) == \E i \in 1..Len(skills) : ConcatRaises(skills[i])

\* the list returned by select_relevant_skills when it does not raise
select_relevant_skills(skills, user_query, max_skills) ==
    IF skills = <<>>
    THEN <<>>
    ELSE LET ranked == SliceTo(SortByScore(ScoredFrom(user_query, skills, 1)), max_skills)
         IN  [k \in 1..Len(ranked) |-> ranked[k].skill]

\* ------------------------------------------------------------------------
\* EnhancedOllamaAgent: code extraction
\* ------------------------------------------------------------------------
\* the backquote character, which a TLA+ string cannot hold
Backtick == "backquote"

Fence == <<Backtick, Backtick, Backtick>>

IsFenceAt(text, i) == i + 2 <= Len(text) /\ SubSeq(text, i, i + 2) = Fence

\* an opening that matches the language tag in lower case only
IsOpenAt_CaseSensitive(text, i) ==
    /\ i + 4 <= Len(text)
    /\ IsFenceAt(text, i)
    /\ text[i + 3] = "r"
    /\ text[i + 4] = "\n"

\* the opening of the pattern (fence, the letter r, a line break) under re.IGNORECASE
IsOpenAt(text, i) ==
    /\ i + 4 <= Len(text)
    /\ IsFenceAt(text, i)
    /\ lower(<<text[i + 3]>>) = <<"r">>
    /\ text[i + 4] = "\n"

\* the first closing fence at or after position i, 0 when there is none
RECURSIVE FirstFenceFrom(_, _)
FirstFenceFrom(text, i) ==
    IF i + 2 > Len(text) THEN 0
    ELSE IF IsFenceAt(text, i) THEN i ELSE FirstFenceFrom(text, i + 1)

RECURSIVE FindAllFrom(_, _)
FindAllFrom(text, i) ==
    IF i > Len(text)
    THEN <<>>
    ELSE IF IsOpenAt(text, i) /\ FirstFenceFrom(text, i + 5) # 0
         THEN LET j == FirstFenceFrom(text, i + 5)
              IN  <<SubSeq(text, i + 5, j - 1)>> \o FindAllFrom(text, j + 3)
         ELSE FindAllFrom(text, i + 1)

\* re.findall(pattern, text, re.DOTALL | re.IGNORECASE): the bodies, lazily
\* closed by the next fence, of the non-overlapping matches from left to right
_extract_code_blocks(text) == FindAllFrom(text, 1)

\* ------------------------------------------------------------------------
\* EnhancedOllamaAgent: running one block
\* ------------------------------------------------------------------------
script_name == "temp_script.R"

\* the entries the plots directory can hold, in directory iteration order
DirOrder == <<"notes.txt", "plot.png", "FIG.PDF", "sub.svg", "temp_script.R">>

\* the paths below the plots directory that iterdir() does not give: a file
\* inside the subdirectory sub.svg
NestedNames == {"sub.svg/inner.png"}

DirNames == {DirOrder[i] : i \in 1..Len(DirOrder)} \cup NestedNames

\* Path.suffix of each entry
Suffix ==
    ("notes.txt" :> <<".", "t", "x", "t">>) @@
    ("plot.png" :> <<".", "p", "n", "g">>) @@
    ("FIG.PDF" :> <<".", "P", "D", "F">>) @@
    ("sub.svg" :> <<".", "s", "v", "g">>) @@
    ("sub.svg/inner.png" :> <<".", "p", "n", "g">>) @@
    ("temp_script.R" :> <<".", "R">>)

plot_extensions ==
    {<<".", "p", "n", "g">>, <<".", "p", "d", "f">>, <<".", "j", "p", "g">>,
     <<".", "j", "p", "e", "g">>, <<".", "s", "v", "g">>}

Absent == [kind |-> "absent", mtime |-> 0]

EmptyDir == [n \in DirNames |-> Absent]

RecentSlack == 5

TimeoutMessage == <<"R script execution timed out (60s limit)">>

NotFoundMessage == <<"Rscript not found. Make sure R is installed and in PATH.">>

\* what the script did to the plots directory while it ran, at time t
ApplyEffect(dir, effect, t) ==
    [n \in DirNames |->
        IF n \in effect.files THEN [kind |-> "file", mtime |-> t]
        ELSE IF n \in effect.dirs THEN [kind |-> "dir", mtime |-> t]
        ELSE IF n \in effect.removed THEN Absent
        ELSE dir[n]]

WriteScript(dir, t) == [dir EXCEPT ![script_name] = [kind |-> "file", mtime |-> t]]

IsPlotCandidate(dir, n) ==
    dir[n].kind = "file" /\ lower(Suffix[n]) \in plot_extensions

\* a recency test without the slack
IsRecent_NoSlack(dir, n) == dir[n].mtime > dir[script_name].mtime

IsRecent(dir, n) == dir[n].mtime > dir[script_name].mtime - RecentSlack

\* the loop over iterdir(): the files appended so far, and whether
\* os.path.getmtime(script_path) raised FileNotFoundError
RECURSIVE ScanFrom(_, _, _)
ScanFrom(dir, i, acc) ==
    IF i > Len(DirOrder)
    THEN [raised |-> FALSE, plot_files |-> acc]
    ELSE LET n == DirOrder[i]
         IN  IF IsPlotCandidate(dir, n)
             THEN IF dir[script_name].kind = "absent"
                  THEN [raised |-> TRUE, plot_files |-> acc]
                  ELSE ScanFrom(dir, i + 1, IF IsRecent(dir, n) THEN Append(acc, n) ELSE acc)
             ELSE ScanFrom(dir, i + 1, acc)

Failure(error, output) ==
    [success |-> FALSE, error |-> error, error_is_none |-> FALSE,
     output |-> output, plot_files |-> <<>>]

Success(output, plot_files) ==
    [success |-> TRUE, error |-> <<>>, error_is_none |-> TRUE,
     output |-> output, plot_files |-> plot_files]

\* the dict returned after result.returncode was found to be 0
ScanResult(dir, env) ==
    IF env.scan = "oserror"
    THEN Failure(env.exception, <<>>)
    ELSE LET scan == ScanFrom(dir, 1, <<>>)
         IN  IF scan.raised
             THEN Failure(NotFoundMessage, <<>>)
             ELSE Success(env.stdout, scan.plot_files)

\* a failure report that keeps only the error stream
ExitResult_DropsStdout(dir, env) ==
    IF env.returncode # 0
    THEN Failure(env.stderr, <<"None">>)
    ELSE ScanResult(dir, env)

\* a run that scans for plot files before it looks at the exit status
ExitResult_KeepsPlots(dir, env) ==
    IF env.returncode # 0
    THEN [Failure(env.stderr \o env.stdout, <<"None">>)
             EXCEPT !.plot_files = ScanFrom(dir, 1, <<>>).plot_files]
    ELSE ScanResult(dir, env)

\* the dict returned once subprocess.run has returned
ExitResult(dir, env) ==
    IF env.returncode # 0
    THEN Failure(env.stderr \o env.stdout, <<"None">>)
    ELSE ScanResult(dir, env)

\* a call that launches the interpreter a second time after a timeout
_execute_r_code_RetriesTimeout(dir, now, env) ==
    LET t == now + env.dt
        written == WriteScript(dir, t)
        after == ApplyEffect(written, env.effect, t)
    IN  IF env.write = "oserror"
        THEN [result |-> Failure(env.exception, <<>>), dir |-> dir, now |-> t,
              launches |-> 0]
        ELSE IF env.launch = "timeout"
        THEN [result |-> Failure(TimeoutMessage, <<>>), dir |-> after, now |-> t,
              launches |-> 2]
        ELSE IF env.launch = "notfound"
        THEN [result |-> Failure(NotFoundMessage, <<>>), dir |-> written, now |-> t,
              launches |-> 1]
        ELSE IF env.launch = "oserror"
        THEN [result |-> Failure(env.exception, <<>>), dir |-> written, now |-> t,
              launches |-> 1]
        ELSE [result |-> ExitResult(after, env), dir |-> after, now |-> t,
              launches |-> 1]

\* env is what the world outside the program does during the call: the time
\* that passed, whether the script could be written, how the launch ended,
\* the streams and exit status of the interpreter, its effect on the directory
\* and whether the directory could be scanned.  Gives the returned dict, the
\* directory and clock afterwards, and the number of subprocess.run calls made.
_execute_r_code(dir, now, env) ==
    LET t == now + env.dt
        written == WriteScript(dir, t)
        after == ApplyEffect(written, env.effect, t)
    IN  IF env.write = "oserror"
        THEN [result |-> Failure(env.exception, <<>>), dir |-> dir, now |-> t,
              launches |-> 0]
        ELSE IF env.launch = "timeout"
        THEN [result |-> Failure(TimeoutMessage, <<>>), dir |-> after, now |-> t,
              launches |-> 1]
        ELSE IF env.launch = "notfound"
        THEN [result |-> Failure(NotFoundMessage, <<>>), dir |-> written, now |-> t,
              launches |-> 1]
        ELSE IF env.launch = "oserror"
        THEN [result |-> Failure(env.exception, <<>>), dir |-> written, now |-> t,
              launches |-> 1]
        ELSE [result |-> ExitResult(after, env), dir |-> after, now |-> t,
              launches |-> 1]

\* ------------------------------------------------------------------------
\* EnhancedOllamaAgent: prompt and turn result
\* ------------------------------------------------------------------------
\* a prompt that lists the skills last to first
RECURSIVE SkillSections_Reversed(_, _)
SkillSections_Reversed(relevant_skills, i) ==
    IF i > Len(relevant_skills)
    THEN <<>>
    ELSE SkillSections_Reversed(relevant_skills, i + 1)
         \o <<"### ">> \o relevant_skills[i].name.val \o <<"\n", "\n">>
         \o relevant_skills[i].content \o <<"\n", "\n", "---", "\n", "\n">>

RECURSIVE SkillSections(_, _)
SkillSections(relevant_skills, i) ==
    IF i > Len(relevant_skills)
    THEN <<>>
    ELSE <<"### ">> \o relevant_skills[i].name.val \o <<"\n", "\n">>
         \o relevant_skills[i].content \o <<"\n", "\n", "---", "\n", "\n">>
         \o SkillSections(relevant_skills, i + 1)

_build_system_prompt(relevant_skills) ==
    IF relevant_skills # <<>>
    THEN <<"You are a helpful AI assistant">>
         \o <<" with access to specialized skills.", "\n", "\n">>
         \o <<"## Active Skills", "\n", "\n">>
         \o SkillSections(relevant_skills, 1)
    ELSE <<"You are a helpful AI assistant">> \o <<".", "\n", "\n">>

Message(role, content) == [role |-> role, content |-> content]

\* a request that leaves the earlier turns out
BuildMessages_NoHistory(system_prompt, history, user_message) ==
    <<Message("system", system_prompt), Message("user", user_message)>>

BuildMessages(system_prompt, history, user_message) ==
    <<Message("system", system_prompt)>> \o history \o <<Message("user", user_message)>>

\* a history update that drops the user message
UpdateHistory_AssistantOnly(history, user_message, assistant_message) ==
    history \o <<Message("assistant", assistant_message)>>

\* the two appends that follow a chat call that returned
UpdateHistory(history, user_message, assistant_message) ==
    history \o <<Message("user", user_message), Message("assistant", assistant_message)>>

SkillNames(relevant_skills) == [k \in 1..Len(relevant_skills) |-> relevant_skills[k].name]

\* the dict a turn returns; r_error is a key only when has_r_error
TurnResult(response, skills_used) ==
    [raised |-> FALSE, response |-> response, skills_used |-> skills_used,
     r_executed |-> FALSE, plot_files |-> <<>>, has_r_error |-> FALSE, r_error |-> <<>>]

\* f"Error: {e}"
ErrorText(e) == <<"Error: ">> \o e

\* the response of the except branch of chat
ChatErrorResponse(e) == ErrorText(e)

\* the response of the except branch of stream_chat:  full_response or f"Error: {e}"
StreamErrorResponse(full, e) == IF full # <<>> THEN full ELSE ErrorText(e)

\* a loop body that sets r_executed before it looks at success
RecordBlock_AlwaysExecuted(m, res, exec_result) ==
    IF exec_result.success
    THEN [res EXCEPT !.r_executed = TRUE, !.plot_files = @ \o exec_result.plot_files]
    ELSE IF m = "chat"
         THEN [res EXCEPT !.r_executed = TRUE, !.has_r_error = TRUE,
                          !.r_error = exec_result.error]
         ELSE [res EXCEPT !.r_executed = TRUE]

\* the body of the loop over r_code_blocks, after _execute_r_code returned
RecordBlock(m, res, exec_result) ==
    IF exec_result.success
    THEN [res EXCEPT !.r_executed = TRUE, !.plot_files = @ \o exec_result.plot_files]
    ELSE IF m = "chat"
         THEN [res EXCEPT !.has_r_error = TRUE, !.r_error = exec_result.error]
         ELSE res

\* whether the block loop is entered at all
RunsBlocks(blocks, auto) == blocks # <<>> /\ auto

\* a loop that stops at the first block that fails
AfterBlock_StopsOnFailure(idx, blocks, exec_result) ==
    IF exec_result.success /\ idx < Len(blocks) THEN "executing" ELSE "done"

\* where the turn goes after block number idx of blocks gave exec_result
AfterBlock(idx, blocks, exec_result) ==
    IF idx < Len(blocks) THEN "executing" ELSE "done"

RECURSIVE Flatten(_)
Flatten(chunks) == IF chunks = <<>> THEN <<>> ELSE Head(chunks) \o Flatten(Tail(chunks))

\* ------------------------------------------------------------------------
\* Inputs
\* ------------------------------------------------------------------------
T_sales == <<"s", "a", "l", "e", "s">>

T_report == <<"r", "e", "p", "o", "r", "t">>

T_plot == <<"p", "l", "o", "t">>

T_sales_report == T_sales \o <<"-">> \o T_report

T_rplot == <<"r">> \o T_plot

SkillDir(dirname, frontmatter, meta_name, meta_description) ==
    [dirname |-> dirname, is_dir |-> TRUE, has_manifest |-> TRUE,
     frontmatter |-> frontmatter, meta_name |-> meta_name,
     meta_description |-> meta_description, body |-> <<"body of ">> \o dirname]

D_sales == SkillDir(T_sales_report, "mapping", MissingKey, Str(T_plot \o <<"s">>))

D_rplot == SkillDir(T_rplot, "absent", MissingKey, MissingKey)

D_report == SkillDir(<<"q", "4">>, "mapping", Str(T_report), MissingKey)

D_null == SkillDir(<<"e", "m", "p", "t", "y">>, "null", MissingKey, MissingKey)

D_scalar == SkillDir(<<"l", "i", "s", "t">>, "scalar", MissingKey, MissingKey)

D_invalid == SkillDir(<<"t", "a", "b", "s">>, "invalid", MissingKey, MissingKey)

D_intname == SkillDir(<<"n", "u", "m">>, "mapping", IntValue, Str(T_plot))

D_nodesc == SkillDir(T_plot, "mapping", MissingKey, NoneValue)

D_nomanifest == [SkillDir(<<"d", "o", "c", "s">>, "absent", MissingKey, MissingKey)
                    EXCEPT !.has_manifest = FALSE]

D_file == [SkillDir(<<"R", "E", "A", "D">>, "absent", MissingKey, MissingKey)
              EXCEPT !.is_dir = FALSE, !.has_manifest = FALSE]

SkillsRoot(children) == [exists |-> TRUE, children |-> children]

MissingRoot == [exists |-> FALSE, children |-> <<>>]

\* what a child of the skills directory can be
ChildDirs ==
    {D_sales, D_rplot, D_report, D_null, D_scalar, D_invalid, D_intname, D_nodesc,
     D_nomanifest, D_file}

\* the skills directories discovery is tried on: the missing one, and every
\* listing of at most MaxChildren children with different names
DiscoverRoots ==
    {MissingRoot} \cup
    {SkillsRoot(c) : c \in {s \in UNION {[1..n -> ChildDirs] : n \in 0..MaxChildren} :
                               \A i, j \in 1..Len(s) : i # j => s[i] # s[j]}}

\* the skills directories an agent is constructed on
AgentRoots ==
    {SkillsRoot(<<D_sales, D_null, D_rplot>>),
     SkillsRoot(<<D_rplot, D_intname>>)}

\* the skills directories select_relevant_skills is tried on
SelectRoots ==
    {MissingRoot,
     SkillsRoot(<<>>),
     SkillsRoot(<<D_sales, D_null, D_rplot>>),
     SkillsRoot(<<D_rplot, D_file, D_report, D_sales>>),
     SkillsRoot(<<D_report, D_scalar, D_rplot, D_nomanifest, D_sales, D_invalid>>),
     SkillsRoot(<<D_rplot, D_intname>>),
     SkillsRoot(<<D_nodesc, D_sales>>)}

Q_sales_report == <<"S", "a", "l", "e", "s", " ">> \o T_report

Q_plot == <<"a", " ">> \o T_plot

UserMessages == {Q_sales_report, Q_plot}

Queries ==
    {<<>>,
     Q_sales_report,
     Q_plot,
     T_plot \o <<" ">> \o T_plot,
     T_report \o <<"\n", " ">> \o T_plot \o <<"\t", "r", "e", "p">>,
     <<"P", "L", "O", "T", "S", " ">> \o T_sales \o <<" ">> \o T_report,
     T_plot \o T_report,
     <<"r", "e", "p", " ", "l", "o", "t">>}

MaxSkillsArgs == (-1)..MaxSkillsArg

\* what the model answers, as the fragments a stream delivers
R_plain == << <<>>, <<"o", "k">> >>

R_one == << Fence \o <<"r", "\n", "x">>, Fence >>

R_two ==
    << Fence \o <<"R", "\n", "y", "\n">> \o Fence,
       <<" ">> \o Fence \o <<"p", "y", "\n", "z">> \o Fence \o Fence \o <<"r", "\n">> \o Fence >>

Responses == {R_plain, R_one, R_two}

ChatErrors == {<<"connection refused">>}

NoEffect == [files |-> {}, dirs |-> {}, removed |-> {}]

E_plot == [files |-> {"plot.png"}, dirs |-> {}, removed |-> {}]

E_many ==
    [files |-> {"FIG.PDF", "notes.txt", "sub.svg/inner.png"}, dirs |-> {"sub.svg"},
     removed |-> {}]

E_selfdelete == [files |-> {"plot.png"}, dirs |-> {}, removed |-> {script_name}]

\* dt, the seconds since the script file was last written: none (the same tick
\* of a coarse file system clock) in ExecOutcomes
ExecEnv(write, launch, returncode, stdout, stderr, effect, scan) ==
    [write |-> write, launch |-> launch, returncode |-> returncode, stdout |-> stdout,
     stderr |-> stderr, effect |-> effect, scan |-> scan,
     exception |-> <<"[Errno 13] Permission denied">>, dt |-> 0]

ExecOutcomes ==
    {ExecEnv("oserror", "exit", 0, <<>>, <<>>, NoEffect, "ok"),
     ExecEnv("ok", "notfound", 0, <<>>, <<>>, NoEffect, "ok"),
     ExecEnv("ok", "oserror", 0, <<>>, <<>>, NoEffect, "ok"),
     ExecEnv("ok", "timeout", 0, <<>>, <<>>, E_plot, "ok"),
     ExecEnv("ok", "exit", 1, <<>>, <<"Error in f()">>, NoEffect, "ok"),
     ExecEnv("ok", "exit", 1, <<"startup failed">>, <<"Execution halted">>, E_plot, "ok"),
     ExecEnv("ok", "exit", 1, <<>>, <<>>, NoEffect, "ok"),
     ExecEnv("ok", "exit", 0, <<>>, <<>>, NoEffect, "ok"),
     ExecEnv("ok", "exit", 0, <<"out">>, <<"warning">>, E_plot, "ok"),
     ExecEnv("ok", "exit", 0, <<>>, <<>>, E_many, "ok"),
     ExecEnv("ok", "exit", 0, <<>>, <<>>, E_selfdelete, "ok"),
     ExecEnv("ok", "exit", 0, <<>>, <<>>, E_plot, "oserror")}

\* the same with a script file written later than the files of earlier blocks:
\* by exactly the slack, and by more than the slack
SlowOutcomes ==
    {[ExecEnv("ok", "exit", 0, <<>>, <<>>, NoEffect, "ok") EXCEPT !.dt = RecentSlack],
     [ExecEnv("ok", "exit", 0, <<>>, <<>>, E_many, "ok") EXCEPT !.dt = RecentSlack + 1]}

ExecEnvs == ExecOutcomes \cup SlowOutcomes

\* ------------------------------------------------------------------------
\* State
\* ------------------------------------------------------------------------
VARIABLES
    skills,                \* SkillManager.skills
    conversation_history,  \* EnhancedOllamaAgent.conversation_history
    auto_execute_r,        \* EnhancedOllamaAgent.auto_execute_r
    plot_dir,              \* the directory save_plots_to
    now,                   \* the clock the file modification times come from
    pc,                    \* where the running turn is
    mode,                  \* "chat" or "stream": the method that runs the turn
    user_message,          \* the argument of the turn
    relevant_skills,       \* local of chat / stream_chat
    messages,              \* local of chat / stream_chat
    pending,               \* fragments the stream has not delivered yet
    full_response,         \* full_response (assistant_message in chat)
    r_code_blocks,         \* local of chat / stream_chat
    block_idx,             \* position of the loop over r_code_blocks
    result,                \* the dict under construction, then returned
    exec_log,              \* the calls of _execute_r_code made by this turn
    chat_failure,          \* the exception the chat call raised in this turn
    history0,              \* conversation_history when the turn started
    turns,                 \* number of turns started
    sel_in,                \* arguments of a select_relevant_skills call
    sel_out,               \* what that call gave
    skills_root,           \* the skills directory on disk
    constructed,           \* whether SkillManager.__init__ has run
    ext_in,                \* the text of an _extract_code_blocks call
    ext_out                \* what that call gave

vars ==
    <<skills, conversation_history, auto_execute_r, plot_dir, now, pc, mode,
      user_message, relevant_skills, messages, pending, full_response,
      r_code_blocks, block_idx, result, exec_log, chat_failure, history0, turns,
      sel_in, sel_out, skills_root, constructed, ext_in, ext_out>>

turn_locals ==
    <<relevant_skills, messages, pending, full_response, r_code_blocks, block_idx,
      result, exec_log, chat_failure>>

agent_fields == <<skills, conversation_history, auto_execute_r, plot_dir, now>>

select_vars == <<sel_in, sel_out>>

manager_vars == <<skills_root, constructed>>

extract_vars == <<ext_in, ext_out>>

\* what a turn of the agent never touches
outside_vars == <<select_vars, manager_vars, extract_vars>>

NoResult == [raised |-> FALSE, none |-> TRUE]

NoFailure == [failed |-> FALSE, error |-> <<>>]

NoCall == [called |-> FALSE]

LocalsCleared ==
    /\ relevant_skills' = <<>>
    /\ messages' = <<>>
    /\ pending' = <<>>
    /\ full_response' = <<>>
    /\ r_code_blocks' = <<>>
    /\ block_idx' = 0
    /\ result' = NoResult
    /\ exec_log' = <<>>
    /\ chat_failure' = NoFailure

\* the agent after __init__ on the skills directory root
Init ==
    /\ \E root \in AgentRoots :
          /\ skills = _discover_skills(root)
          /\ skills_root = mkdir_root(root)
    /\ constructed = TRUE
    /\ ext_in = NoCall
    /\ ext_out = NoCall
    /\ conversation_history = <<>>
    /\ auto_execute_r = TRUE
    /\ plot_dir = EmptyDir
    /\ now = 0
    /\ pc = "idle"
    /\ mode = "chat"
    /\ user_message = <<>>
    /\ relevant_skills = <<>>
    /\ messages = <<>>
    /\ pending = <<>>
    /\ full_response = <<>>
    /\ r_code_blocks = <<>>
    /\ block_idx = 0
    /\ result = NoResult
    /\ exec_log = <<>>
    /\ chat_failure = NoFailure
    /\ history0 = <<>>
    /\ turns = 0
    /\ sel_in = NoCall
    /\ sel_out = NoCall

\* ------------------------------------------------------------------------
\* One turn: chat (enhanced_ollama_agent.py 191-286) and stream_chat (288-376)
\* ------------------------------------------------------------------------
\* the caller invokes chat(msg) or stream_chat(msg)
StartTurn ==
    /\ pc = "idle"
    /\ turns < MaxTurns
    /\ \E m \in {"chat", "stream"}, msg \in UserMessages :
          /\ mode' = m
          /\ user_message' = msg
    /\ turns' = turns + 1
    /\ history0' = conversation_history
    /\ pc' = "selecting"
    /\ LocalsCleared
    /\ UNCHANGED <<agent_fields, outside_vars>>

\* lines 199-207 / 291-299: select_relevant_skills(user_message, max_skills=2)
\* runs outside the try block, so what it raises leaves the turn
SelectSkills ==
    /\ pc = "selecting"
    /\ IF SelectRaises(skills)
       THEN /\ result' = Raised(TypeErrorText)
            /\ pc' = "done"
            /\ UNCHANGED relevant_skills
       ELSE /\ relevant_skills' = select_relevant_skills(skills, user_message, 2)
            /\ pc' = "composing"
            /\ UNCHANGED result
    /\ UNCHANGED <<agent_fields, outside_vars, mode, user_message, messages, pending,
                   full_response, r_code_blocks, block_idx, exec_log, chat_failure,
                   history0, turns>>

\* lines 210-216 / 302-308
ComposePrompt ==
    /\ pc = "composing"
    /\ messages' = BuildMessages(_build_system_prompt(relevant_skills),
                                 conversation_history, user_message)
    /\ pc' = "awaiting"
    /\ UNCHANGED <<agent_fields, outside_vars, mode, user_message, relevant_skills,
                   pending, full_response, r_code_blocks, block_idx, result, exec_log,
                   chat_failure, history0, turns>>

\* lines 223-239: ollama.chat returned a complete message
ChatCallReturns ==
    /\ pc = "awaiting"
    /\ mode = "chat"
    /\ \E r \in Responses :
          /\ full_response' = Flatten(r)
          /\ conversation_history' =
                UpdateHistory(conversation_history, user_message, Flatten(r))
    /\ pc' = "extracting"
    /\ UNCHANGED <<skills, auto_execute_r, plot_dir, now, outside_vars, mode,
                   user_message, relevant_skills, messages, pending, r_code_blocks,
                   block_idx, result, exec_log, chat_failure, history0, turns>>

\* an except branch that records the user message before it returns
ChatCallRaises_AppendsUserMessage ==
    /\ pc = "awaiting"
    /\ mode = "chat"
    /\ \E e \in ChatErrors :
          /\ chat_failure' = [failed |-> TRUE, error |-> e]
          /\ result' = TurnResult(ChatErrorResponse(e), <<>>)
    /\ conversation_history' = Append(conversation_history, Message("user", user_message))
    /\ pc' = "done"
    /\ UNCHANGED <<skills, auto_execute_r, plot_dir, now, outside_vars, mode,
                   user_message, relevant_skills, messages, pending, full_response,
                   r_code_blocks, block_idx, exec_log, history0, turns>>

\* lines 280-286: ollama.chat raised
ChatCallRaises ==
    /\ pc = "awaiting"
    /\ mode = "chat"
    /\ \E e \in ChatErrors :
          /\ chat_failure' = [failed |-> TRUE, error |-> e]
          /\ result' = TurnResult(ChatErrorResponse(e), <<>>)
    /\ pc' = "done"
    /\ UNCHANGED <<agent_fields, outside_vars, mode, user_message, relevant_skills,
                   messages, pending, full_response, r_code_blocks, block_idx,
                   exec_log, history0, turns>>

\* lines 315-320: ollama.chat(stream=True) gave the stream
StreamOpens ==
    /\ pc = "awaiting"
    /\ mode = "stream"
    /\ \E r \in Responses : pending' = r
    /\ pc' = "streaming"
    /\ UNCHANGED <<agent_fields, outside_vars, mode, user_message, relevant_skills,
                   messages, full_response, r_code_blocks, block_idx, result,
                   exec_log, chat_failure, history0, turns>>

\* lines 322-325: one fragment arrives
StreamChunk ==
    /\ pc = "streaming"
    /\ pending # <<>>
    /\ full_response' = full_response \o Head(pending)
    /\ pending' = Tail(pending)
    /\ UNCHANGED <<agent_fields, outside_vars, pc, mode, user_message, relevant_skills,
                   messages, r_code_blocks, block_idx, result, exec_log, chat_failure,
                   history0, turns>>

\* lines 327-337: the stream is drained
StreamEnds ==
    /\ pc = "streaming"
    /\ pending = <<>>
    /\ conversation_history' =
          UpdateHistory(conversation_history, user_message, full_response)
    /\ pc' = "extracting"
    /\ UNCHANGED <<skills, auto_execute_r, plot_dir, now, outside_vars, mode,
                   user_message, relevant_skills, messages, pending, full_response,
                   r_code_blocks, block_idx, result, exec_log, chat_failure, history0,
                   turns>>

\* lines 369-376: opening the stream, or reading its next fragment, raised
StreamRaises ==
    /\ mode = "stream"
    /\ pc = "awaiting" \/ (pc = "streaming" /\ pending # <<>>)
    /\ \E e \in ChatErrors :
          /\ chat_failure' = [failed |-> TRUE, error |-> e]
          /\ result' = TurnResult(StreamErrorResponse(full_response, e), <<>>)
    /\ pc' = "done"
    /\ UNCHANGED <<agent_fields, outside_vars, mode, user_message, relevant_skills,
                   messages, pending, full_response, r_code_blocks, block_idx,
                   exec_log, history0, turns>>

\* lines 242-252 / 340-349
ExtractCode ==
    /\ pc = "extracting"
    /\ r_code_blocks' = _extract_code_blocks(full_response)
    /\ result' = TurnResult(full_response, SkillNames(relevant_skills))
    /\ IF RunsBlocks(_extract_code_blocks(full_response), auto_execute_r)
       THEN pc' = "executing" /\ block_idx' = 1
       ELSE pc' = "done" /\ block_idx' = 0
    /\ UNCHANGED <<agent_fields, outside_vars, mode, user_message, relevant_skills,
                   messages, pending, full_response, exec_log, chat_failure, history0,
                   turns>>

\* lines 255-276 / 352-365: one pass of the loop over r_code_blocks
ExecuteBlock ==
    /\ pc = "executing"
    /\ \E env \in ExecEnvs :
          LET call == _execute_r_code(plot_dir, now, env)
          IN  /\ plot_dir' = call.dir
              /\ now' = call.now
              /\ exec_log' = Append(exec_log, [code |-> r_code_blocks[block_idx],
                                               env |-> env, result |-> call.result,
                                               launches |-> call.launches])
              /\ result' = RecordBlock(mode, result, call.result)
              /\ pc' = AfterBlock(block_idx, r_code_blocks, call.result)
    /\ block_idx' = block_idx + 1
    /\ UNCHANGED <<skills, conversation_history, auto_execute_r, outside_vars, mode,
                   user_message, relevant_skills, messages, pending, full_response,
                   r_code_blocks, chat_failure, history0, turns>>

\* the caller has the returned dict (or the exception) and is back at its prompt
Return ==
    /\ pc = "done"
    /\ pc' = "idle"
    /\ LocalsCleared
    /\ UNCHANGED <<agent_fields, outside_vars, mode, user_message, history0, turns>>

\* lines 378-381
reset ==
    /\ pc = "idle"
    /\ conversation_history # <<>>
    /\ conversation_history' = <<>>
    /\ UNCHANGED <<skills, auto_execute_r, plot_dir, now, outside_vars, pc, mode,
                   user_message, turn_locals, history0, turns>>

\* interactive_mode, lines 442-444: the /toggle command
ToggleAutoExecute ==
    /\ pc = "idle"
    /\ auto_execute_r' = ~auto_execute_r
    /\ UNCHANGED <<skills, conversation_history, plot_dir, now, outside_vars, pc, mode,
                   user_message, turn_locals, history0, turns>>

Next ==
    \/ StartTurn
    \/ SelectSkills
    \/ ComposePrompt
    \/ ChatCallReturns
    \/ ChatCallRaises
    \/ StreamOpens
    \/ StreamChunk
    \/ StreamEnds
    \/ StreamRaises
    \/ ExtractCode
    \/ ExecuteBlock
    \/ Return
    \/ reset
    \/ ToggleAutoExecute

Spec == Init /\ [][Next]_vars

TypeOK ==
    /\ pc \in {"idle", "selecting", "composing", "awaiting", "streaming",
               "extracting", "executing", "done"}
    /\ turns \in 0..MaxTurns

\* ------------------------------------------------------------------------
\* select_relevant_skills on its own (local_skills.py 132-159)
\* ------------------------------------------------------------------------
SelectInit ==
    /\ \E root \in SelectRoots :
          /\ skills = _discover_skills(root)
          /\ skills_root = mkdir_root(root)
    /\ constructed = TRUE
    /\ ext_in = NoCall
    /\ ext_out = NoCall
    /\ \E q \in Queries, n \in MaxSkillsArgs :
          sel_in = [called |-> TRUE, user_query |-> q, max_skills |-> n]
    /\ sel_out = NoCall
    /\ conversation_history = <<>>
    /\ auto_execute_r = TRUE
    /\ plot_dir = EmptyDir
    /\ now = 0
    /\ pc = "idle"
    /\ mode = "chat"
    /\ user_message = <<>>
    /\ relevant_skills = <<>>
    /\ messages = <<>>
    /\ pending = <<>>
    /\ full_response = <<>>
    /\ r_code_blocks = <<>>
    /\ block_idx = 0
    /\ result = NoResult
    /\ exec_log = <<>>
    /\ chat_failure = NoFailure
    /\ history0 = <<>>
    /\ turns = 0

SelectReturns ==
    /\ ~sel_out.called
    /\ ~SelectRaises(skills)
    /\ sel_out' = [called |-> TRUE, raised |-> FALSE,
                   scores |-> LoopScores(skills, sel_in.user_query),
                   skills |-> select_relevant_skills(skills, sel_in.user_query,
                                                     sel_in.max_skills)]
    /\ UNCHANGED <<agent_fields, sel_in, manager_vars, extract_vars, pc, mode,
                   user_message, turn_locals, history0, turns>>

SelectThrows ==
    /\ ~sel_out.called
    /\ SelectRaises(skills)
    /\ sel_out' = [called |-> TRUE, raised |-> TRUE, skills |-> <<>>]
    /\ UNCHANGED <<agent_fields, sel_in, manager_vars, extract_vars, pc, mode,
                   user_message, turn_locals, history0, turns>>

SelectNext == SelectReturns \/ SelectThrows

SelectSpec == SelectInit /\ [][SelectNext]_vars

\* ------------------------------------------------------------------------
\* Properties
\* ------------------------------------------------------------------------
Returned == pc = "done" /\ ~result.raised

ChatFailed == pc = "done" /\ chat_failure.failed

ChatSucceeded == Returned /\ ~chat_failure.failed

SomeBlock(P(_)) == \E k \in 1..Len(exec_log) : P(exec_log[k])

EveryBlock(P(_)) == \A k \in 1..Len(exec_log) : P(exec_log[k])

BlockSucceeded(entry) == entry.result.success

BlockFailed(entry) == ~entry.result.success

\* the history a successful turn must leave: what it started with, then the
\* user entry, then the assistant entry
ExtendedHistory ==
    history0 \o <<[role |-> "user", content |-> user_message],
                  [role |-> "assistant", content |-> full_response]>>

\* C1: whenever the chat call raises during a turn, in chat or in stream_chat,
\* also after some fragments were streamed, the turn returns without raising
\* and the response text of the returned dict carries the failure description.
C1_FailureDescriptionReturned ==
    ChatFailed => (~result.raised /\ IsSubstring(chat_failure.error, result.response))

\* C2 as stated: after a turn whose chat call failed, the user message of that
\* turn is in the conversation history when the turn returns.
C2_UserMessageKeptOnFailure ==
    ChatFailed =>
        \E i \in 1..Len(conversation_history) :
            conversation_history[i] = Message("user", user_message)

\* C2 as amended: after a turn whose chat call failed, the conversation history
\* is exactly what it was when the turn started; nothing of the turn is added.
C2_HistoryUnchangedOnFailure ==
    ChatFailed => conversation_history = history0

C2_Witness ==
    /\ ChatFailed
    /\ mode = "stream"
    /\ full_response # <<>>
    /\ history0 # <<>>
    /\ conversation_history = history0

\* C3: in a turn whose chat call succeeds the history is extended exactly once,
\* by the user message then the full assistant response, before any block is
\* extracted or run, and it is the same whatever the blocks then do.
C3_HistoryUpdatedOnceBeforeExtraction ==
    /\ pc \in {"selecting", "composing", "awaiting", "streaming"} =>
          /\ conversation_history = history0
          /\ r_code_blocks = <<>>
          /\ exec_log = <<>>
    /\ pc = "extracting" =>
          /\ conversation_history = ExtendedHistory
          /\ r_code_blocks = <<>>
          /\ exec_log = <<>>
    /\ (pc = "executing" \/ ChatSucceeded) => conversation_history = ExtendedHistory

C3_Witness ==
    /\ ChatSucceeded
    /\ history0 # <<>>
    /\ SomeBlock(BlockSucceeded)
    /\ SomeBlock(BlockFailed)
    /\ conversation_history = ExtendedHistory

\* C4: with auto-execution on, the interpreter is run for every one of the N
\* blocks of the response, in source order, whichever earlier blocks failed.
C4_EveryBlockRun ==
    /\ \A k \in 1..Len(exec_log) : exec_log[k].code = r_code_blocks[k]
    /\ pc = "executing" =>
          /\ block_idx = Len(exec_log) + 1
          /\ block_idx <= Len(r_code_blocks)
    /\ (ChatSucceeded /\ auto_execute_r) =>
          [k \in 1..Len(exec_log) |-> exec_log[k].code] = _extract_code_blocks(full_response)

C4_Witness ==
    /\ ChatSucceeded
    /\ Len(exec_log) = 2
    /\ ~exec_log[1].result.success
    /\ exec_log[1].env.launch = "timeout"
    /\ exec_log[2].result.success

\* C5: r_executed of the returned dict is true exactly when at least one block
\* of the turn was run and gave success; it is false when there is no block,
\* when every block fails and when the chat call fails.
C5_ExecutedIffSomeSuccess ==
    Returned =>
        /\ result.r_executed <=> SomeBlock(BlockSucceeded)
        /\ chat_failure.failed => ~result.r_executed

C5_Witness ==
    /\ Returned
    /\ result.r_executed
    /\ Len(exec_log) = 2
    /\ ~exec_log[2].result.success

\* C6: every dict _execute_r_code returns with success false has no plot
\* files, on every failure path; plot files come only from a zero exit status.
C6_NoArtifactsOnFailure ==
    \A k \in 1..Len(exec_log) :
        LET entry == exec_log[k]
        IN  /\ ~entry.result.success => entry.result.plot_files = <<>>
            /\ entry.result.plot_files # <<>> =>
                  /\ entry.env.write = "ok"
                  /\ entry.env.launch = "exit"
                  /\ entry.env.returncode = 0

C6_Witness ==
    /\ exec_log # <<>>
    /\ LET entry == exec_log[Len(exec_log)]
       IN  /\ ~entry.result.success
           /\ entry.env.launch = "exit"
           /\ entry.env.returncode # 0
           /\ IsPlotCandidate(plot_dir, "plot.png")
           /\ IsRecent(plot_dir, "plot.png")

\* C7: in every turn, chat or stream_chat, whose response has code blocks that
\* all fail, the returned dict has r_executed false, no plot files and a
\* non-empty r_error recording the failure.
C7_AllBlocksFailReported ==
    (ChatSucceeded /\ exec_log # <<>> /\ EveryBlock(BlockFailed)) =>
        /\ ~result.r_executed
        /\ result.plot_files = <<>>
        /\ result.has_r_error
        /\ result.r_error # <<>>

\* C8: whatever the registry holds, a turn returns a dict and never raises to
\* its caller.
C8_TurnNeverRaises ==
    pc = "done" => ~result.raised

\* ------------------------------------------------------------------------
\* Properties of select_relevant_skills, under SelectSpec
\* ------------------------------------------------------------------------
SelectDone == sel_out.called /\ ~sel_out.raised /\ sel_in.max_skills >= 0

Position(skill) == CHOOSE i \in 1..Len(skills) : skills[i] = skill

Positive(q) == {i \in 1..Len(skills) : Score(q, skills[i]) > 0}

\* C9: for every max_skills >= 0 select returns no skill of score 0 and at
\* most max_skills skills, each one a registry member, none twice.
C9_SelectBounded ==
    SelectDone =>
        LET out == sel_out.skills
            q == sel_in.user_query
        IN  /\ Len(out) <= sel_in.max_skills
            /\ \A k \in 1..Len(out) :
                  /\ \E i \in 1..Len(skills) : skills[i] = out[k]
                  /\ Score(q, out[k]) > 0
            /\ \A j, k \in 1..Len(out) : j # k => out[j] # out[k]

C9_Witness ==
    /\ SelectDone
    /\ sel_in.max_skills = 1
    /\ Len(sel_out.skills) = 1
    /\ Cardinality(Positive(sel_in.user_query)) = 2
    /\ Len(skills) = 3

\* C10: the returned sequence is in non-increasing score order, equal scores
\* in discovery order, and is exactly the first max_skills of that ranking.
C10_SelectRanked ==
    SelectDone =>
        LET out == sel_out.skills
            q == sel_in.user_query
            n == Cardinality(Positive(q))
            Outranks(a, b) ==
                \/ Score(q, a) > Score(q, b)
                \/ Score(q, a) = Score(q, b) /\ Position(a) < Position(b)
        IN  /\ Len(out) = IF n < sel_in.max_skills THEN n ELSE sel_in.max_skills
            /\ \A k \in 1..(Len(out) - 1) : Outranks(out[k], out[k + 1])
            /\ \A i \in Positive(q) :
                  (\A k \in 1..Len(out) : out[k] # skills[i]) =>
                      \A k \in 1..Len(out) : Outranks(out[k], skills[i])

C10_Witness ==
    /\ SelectDone
    /\ sel_in.max_skills = 2
    /\ Len(sel_out.skills) = 2
    /\ Cardinality(Positive(sel_in.user_query)) = 3
    /\ Score(sel_in.user_query, sel_out.skills[2]) = 1
    /\ \E i \in Positive(sel_in.user_query) :
          /\ Score(sel_in.user_query, skills[i]) = 1
          /\ i > Position(sel_out.skills[2])

\* the occurrences of whitespace-separated tokens in s, as <<first, last>>
TokenOccurrences(s) ==
    {r \in (1..Len(s)) \X (1..Len(s)) :
        /\ r[1] <= r[2]
        /\ \A k \in r[1]..r[2] : s[k] \notin Whitespace
        /\ r[1] = 1 \/ s[r[1] - 1] \in Whitespace
        /\ r[2] = Len(s) \/ s[r[2] + 1] \in Whitespace}

\* the occurrences that are longer than 3 and occur in the skill's text
Contributing(q, skill) ==
    LET s == lower(q)
        text == lower(skill.name.val \o <<" ">> \o skill.description.val)
    IN  {r \in TokenOccurrences(s) :
            /\ r[2] - r[1] + 1 > 3
            /\ IsSubstring(SubSeq(s, r[1], r[2]), text)}

\* C16: the score of a skill is the number of whitespace-separated token
\* occurrences of the lower-cased query that are longer than 3 characters and
\* are substrings of the lower-cased name and description text; shorter tokens
\* add nothing and a qualifying token that occurs twice adds 2.
C16_ScoreCountsTokenOccurrences ==
    (sel_out.called /\ ~sel_out.raised) =>
        /\ Len(sel_out.scores) = Len(skills)
        /\ \A i \in 1..Len(skills) :
              sel_out.scores[i] = Cardinality(Contributing(sel_in.user_query, skills[i]))

C16_Witness ==
    /\ sel_out.called
    /\ ~sel_out.raised
    /\ \E i \in 1..Len(skills) :
          /\ sel_out.scores[i] = 2
          /\ \E r1, r2 \in Contributing(sel_in.user_query, skills[i]) :
                /\ r1 # r2
                /\ SubSeq(sel_in.user_query, r1[1], r1[2])
                       = SubSeq(sel_in.user_query, r2[1], r2[2])
    /\ \E i \in 1..Len(skills) :
          /\ sel_out.scores[i] = 0
          /\ Contributing(sel_in.user_query, skills[i]) = {}

\* ------------------------------------------------------------------------
\* Properties of _execute_r_code, under Spec
\* ------------------------------------------------------------------------
Launched(entry) == entry.env.write = "ok" /\ entry.env.launch = "exit"

\* C11: when the interpreter exits with a non-zero status the returned dict
\* has success false and its error is the captured stderr followed by the
\* captured stdout, so no captured stdout text is lost.
C11_StderrThenStdout ==
    \A k \in 1..Len(exec_log) :
        LET entry == exec_log[k]
            n == Len(entry.env.stderr)
        IN  (Launched(entry) /\ entry.env.returncode # 0) =>
                /\ ~entry.result.success
                /\ Len(entry.result.error) = n + Len(entry.env.stdout)
                /\ SubSeq(entry.result.error, 1, n) = entry.env.stderr
                /\ SubSeq(entry.result.error, n + 1, Len(entry.result.error)) = entry.env.stdout

C11_Witness ==
    \E k \in 1..Len(exec_log) :
        /\ Launched(exec_log[k])
        /\ exec_log[k].env.returncode # 0
        /\ exec_log[k].env.stderr # <<>>
        /\ exec_log[k].env.stdout # <<>>
        /\ ~exec_log[k].result.success

\* C12: the returned error is the fixed "Rscript not found" message exactly
\* when the interpreter binary could not be found; no run in which the
\* interpreter was launched reports it, whatever the script did to the files
\* of the directory, the script file included.
C12_NotFoundOnlyWhenNotFound ==
    \A k \in 1..Len(exec_log) :
        LET entry == exec_log[k]
        IN  (~entry.result.success /\ entry.result.error = NotFoundMessage)
                <=> (entry.env.write = "ok" /\ entry.env.launch = "notfound")

\* C13: a block whose run exceeds the timeout gives success false, the fixed
\* timeout message and no plot files; the interpreter is launched once for it
\* and never again (one call per block and per turn), and the turn goes on to
\* the next block as after any other failure.
C13_TimeoutOnceThenNextBlock ==
    /\ \A k \in 1..Len(exec_log) :
          /\ exec_log[k].launches <= 1
          /\ exec_log[k].code = r_code_blocks[k]
          /\ (exec_log[k].env.write = "ok" /\ exec_log[k].env.launch = "timeout") =>
                /\ ~exec_log[k].result.success
                /\ exec_log[k].result.error = <<"R script execution timed out (60s limit)">>
                /\ exec_log[k].result.plot_files = <<>>
                /\ exec_log[k].launches = 1
    /\ Len(exec_log) <= Len(r_code_blocks)
    /\ (pc = "executing" /\ exec_log # <<>>) => block_idx = Len(exec_log) + 1
    /\ (pc = "done" /\ exec_log # <<>>) => Len(exec_log) = Len(r_code_blocks)

C13_Witness ==
    /\ pc = "done"
    /\ Len(exec_log) = 2
    /\ exec_log[1].env.write = "ok"
    /\ exec_log[1].env.launch = "timeout"
    /\ exec_log[1].result.error = TimeoutMessage
    /\ exec_log[2].launches = 1
    /\ exec_log[2].env.launch = "exit"

\* ------------------------------------------------------------------------
\* SkillManager construction, then one selection (local_skills.py 100-159)
\* ------------------------------------------------------------------------
DiscoverInit ==
    /\ skills_root \in DiscoverRoots
    /\ constructed = FALSE
    /\ skills = <<>>
    /\ sel_in = NoCall
    /\ sel_out = NoCall
    /\ ext_in = NoCall
    /\ ext_out = NoCall
    /\ conversation_history = <<>>
    /\ auto_execute_r = TRUE
    /\ plot_dir = EmptyDir
    /\ now = 0
    /\ pc = "idle"
    /\ mode = "chat"
    /\ user_message = <<>>
    /\ relevant_skills = <<>>
    /\ messages = <<>>
    /\ pending = <<>>
    /\ full_response = <<>>
    /\ r_code_blocks = <<>>
    /\ block_idx = 0
    /\ result = NoResult
    /\ exec_log = <<>>
    /\ chat_failure = NoFailure
    /\ history0 = <<>>
    /\ turns = 0

\* SkillManager.__init__, lines 100-120
Construct ==
    /\ ~constructed
    /\ skills' = _discover_skills(skills_root)
    /\ skills_root' = mkdir_root(skills_root)
    /\ constructed' = TRUE
    /\ UNCHANGED <<conversation_history, auto_execute_r, plot_dir, now, select_vars,
                   extract_vars, pc, mode, user_message, turn_locals, history0, turns>>

\* a select_relevant_skills call on the constructed manager, lines 132-159
LaterSelect ==
    /\ constructed
    /\ ~sel_out.called
    /\ \E q \in Queries, n \in MaxSkillsArgs :
          /\ sel_in' = [called |-> TRUE, user_query |-> q, max_skills |-> n]
          /\ sel_out' =
                IF SelectRaises(skills)
                THEN [called |-> TRUE, raised |-> TRUE, skills |-> <<>>]
                ELSE [called |-> TRUE, raised |-> FALSE,
                      scores |-> LoopScores(skills, q),
                      skills |-> select_relevant_skills(skills, q, n)]
    /\ UNCHANGED <<agent_fields, manager_vars, extract_vars, pc, mode, user_message,
                   turn_locals, history0, turns>>

DiscoverNext == Construct \/ LaterSelect

DiscoverSpec == DiscoverInit /\ [][DiscoverNext]_vars

\* a child directory whose manifest parses: it is a directory, holds SKILL.md,
\* and the file has no front matter or front matter that is a mapping
Parses(child) ==
    child.is_dir /\ child.has_manifest /\ child.frontmatter \in {"absent", "mapping"}

ParsedChildren == {i \in 1..Len(skills_root.children) : Parses(skills_root.children[i])}

\* C14: whatever mix of well-formed, malformed and missing manifests the child
\* directories hold, discovery completes and the registry holds exactly one
\* document per child whose manifest parsed, in directory iteration order; a
\* failing directory does not keep a later one out.
C14_DiscoveryKeepsParsedChildren ==
    constructed =>
        /\ Len(skills) = Cardinality(ParsedChildren)
        /\ \A i \in ParsedChildren :
              skills[Cardinality({j \in ParsedChildren : j <= i})].path
                  = skills_root.children[i].dirname

C14_Witness ==
    /\ constructed
    /\ Len(skills_root.children) = 2
    /\ skills_root.children[1].has_manifest
    /\ skills_root.children[1].frontmatter = "null"
    /\ Parses(skills_root.children[2])
    /\ Len(skills) = 1

\* C15: when the skills root did not exist at startup, construction raises
\* nothing, leaves the registry empty and the root exists afterwards; every
\* later selection on that registry returns the empty list.
C15_MissingRootGivesEmptyRegistry ==
    (constructed /\ skills_root.created) =>
        /\ skills = <<>>
        /\ skills_root.exists
        /\ sel_out.called => (~sel_out.raised /\ sel_out.skills = <<>>)

C15_Witness ==
    /\ constructed
    /\ skills_root.created
    /\ skills_root.exists
    /\ sel_out.called
    /\ sel_in.user_query = Q_sales_report
    /\ sel_out.skills = <<>>


\* ------------------------------------------------------------------------
\* Properties of the plot file scan, under Spec
\* ------------------------------------------------------------------------
\* the call of _execute_r_code that gave the present plots directory
LastRun == exec_log[Len(exec_log)]

\* the paths with one of the extensions .png .pdf .jpg .jpeg .svg in any case
RecognizedNames == {"plot.png", "FIG.PDF", "sub.svg", "sub.svg/inner.png"}

\* the regular files directly in the plots directory, with such an extension,
\* modified strictly later than 5 seconds before the script file was
ExpectedPlots ==
    {n \in RecognizedNames :
        /\ n \notin {"sub.svg/inner.png"}
        /\ plot_dir[n].kind = "file"
        /\ plot_dir[n].mtime + 5 > plot_dir[script_name].mtime}

ReportedPlots == {LastRun.result.plot_files[k] : k \in 1..Len(LastRun.result.plot_files)}

ZeroExit(entry) == Launched(entry) /\ entry.env.returncode = 0

SystemPrompt == messages[1].content

PromptHeader ==
    <<"You are a helpful AI assistant", " with access to specialized skills.", "\n", "\n",
      "## Active Skills", "\n", "\n">>

\* heading, body and separator of the k-th selected skill
SectionOf(k) ==
    <<"### ">> \o relevant_skills[k].name.val \o <<"\n", "\n">>
    \o relevant_skills[k].content
    \o <<"\n", "\n", "---", "\n", "\n">>

\* where the section of the k-th selected skill ends in the prompt
RECURSIVE SectionEnd(_)
SectionEnd(k) == IF k = 0 THEN Len(PromptHeader) ELSE SectionEnd(k - 1) + Len(SectionOf(k))

Block(tag, body) ==
    [tag |-> tag, body |-> body,
     text |-> Fence \o tag \o <<"\n">> \o body \o Fence \o <<"\n">>]

Prose(text) == [tag |-> <<"none">>, body |-> <<>>, text |-> text]

\* the pieces a response is put together from
Segments ==
    {Block(<<"r">>, <<"x", " ", "<", "-", " ", "1", "\n", "x", "\n">>),
     Block(<<"R">>, <<"y">>),
     Block(<<"r">>, <<>>),
     Block(<<"p", "y">>, <<"z", "\n">>),
     Block(<<>>, <<"r", "\n">>),
     Prose(<<"U", "s", "e", " ", Backtick, "r", Backtick, ":", "\n">>)}

SegmentLists == UNION {[1..n -> Segments] : n \in 0..MaxSegments}

ExtractInit ==
    /\ \E segments \in SegmentLists :
          ext_in = [called |-> TRUE, segments |-> segments,
                    text |-> Flatten([k \in 1..Len(segments) |-> segments[k].text])]
    /\ ext_out = NoCall
    /\ skills_root = mkdir_root(MissingRoot)
    /\ constructed = TRUE
    /\ skills = <<>>
    /\ sel_in = NoCall
    /\ sel_out = NoCall
    /\ conversation_history = <<>>
    /\ auto_execute_r = TRUE
    /\ plot_dir = EmptyDir
    /\ now = 0
    /\ pc = "idle"
    /\ mode = "chat"
    /\ user_message = <<>>
    /\ relevant_skills = <<>>
    /\ messages = <<>>
    /\ pending = <<>>
    /\ full_response = <<>>
    /\ r_code_blocks = <<>>
    /\ block_idx = 0
    /\ result = NoResult
    /\ exec_log = <<>>
    /\ chat_failure = NoFailure
    /\ history0 = <<>>
    /\ turns = 0

\* the first call of _extract_code_blocks(text)
Extract ==
    /\ ~ext_out.called
    /\ ext_out' = [called |-> TRUE, calls |-> 1,
                   matches |-> _extract_code_blocks(ext_in.text),
                   again |-> <<>>]
    /\ UNCHANGED <<agent_fields, select_vars, manager_vars, ext_in, pc, mode,
                   user_message, turn_locals, history0, turns>>

\* a second call on the same text
ExtractAgain ==
    /\ ext_out.called
    /\ ext_out.calls = 1
    /\ ext_out' = [ext_out EXCEPT !.calls = 2,
                                  !.again = _extract_code_blocks(ext_in.text)]
    /\ UNCHANGED <<agent_fields, select_vars, manager_vars, ext_in, pc, mode,
                   user_message, turn_locals, history0, turns>>

ExtractNext == Extract \/ ExtractAgain

ExtractSpec == ExtractInit /\ [][ExtractNext]_vars

\* ------------------------------------------------------------------------
\* Properties of _extract_code_blocks, under ExtractSpec
\* ------------------------------------------------------------------------
\* the positions of the blocks tagged r, in either letter case
TargetBlocks == {k \in 1..Len(ext_in.segments) : ext_in.segments[k].tag \in {<<"r">>, <<"R">>}}

\* C19: a text with N well-formed blocks tagged r or R gives exactly N bodies,
\* in source order, each the text between the line break after the tag and
\* the next closing fence; blocks with another tag or none give nothing; a
\* text without such a block gives the empty list; a second extraction of the
\* same text gives the same list.
C19_ExtractsTaggedBlocksInOrder ==
    ext_out.called =>
        /\ Len(ext_out.matches) = Cardinality(TargetBlocks)
        /\ \A k \in TargetBlocks :
              ext_out.matches[Cardinality({j \in TargetBlocks : j <= k})]
                  = ext_in.segments[k].body
        /\ ext_out.calls = 2 => ext_out.again = ext_out.matches

C19_Witness ==
    /\ ext_out.called
    /\ ext_out.calls = 2
    /\ Len(ext_in.segments) = 3
    /\ Len(ext_out.matches) = 2
    /\ ext_out.matches[1] = <<"y">>
    /\ ext_out.matches[2] # <<>>
    /\ \E k \in 1..3 : ext_in.segments[k].tag = <<"p", "y">>


\* ------------------------------------------------------------------------
\* Properties of the conversation history, under Spec
\* ------------------------------------------------------------------------
\* even length, user and assistant entries in turn
Alternates(history) ==
    /\ Len(history) % 2 = 0
    /\ \A i \in 1..Len(history) :
          history[i].role = IF i % 2 = 1 THEN "user" ELSE "assistant"

\* the running turn has left the history as it found it, or has added the
\* user message and the reply behind it
TurnKeepsOrExtends ==
    \/ conversation_history = history0
    \/ /\ Len(conversation_history) = Len(history0) + 2
       /\ SubSeq(conversation_history, 1, Len(history0)) = history0
       /\ conversation_history[Len(history0) + 1] =
              [role |-> "user", content |-> user_message]
       /\ conversation_history[Len(history0) + 2].role = "assistant"

\* the list sent to the model: system prompt, the history, the new message
SentInOrder ==
    /\ Len(messages) = Len(history0) + 2
    /\ messages[1].role = "system"
    /\ \A i \in 1..Len(history0) : messages[i + 1] = history0[i]
    /\ messages[Len(messages)] = [role |-> "user", content |-> user_message]

HistoryShape ==
    /\ Alternates(conversation_history)
    /\ pc # "idle" => TurnKeepsOrExtends
    /\ messages # <<>> => SentInOrder

\* one step keeps the history, or appends one pair to it, or empties it; it
\* empties it only between turns, where the only operation that writes the
\* history is reset
HistoryStep ==
    \/ conversation_history' = conversation_history
    \/ /\ Len(conversation_history') = Len(conversation_history) + 2
       /\ SubSeq(conversation_history', 1, Len(conversation_history)) = conversation_history
       /\ pc # "idle"
    \/ /\ conversation_history' = <<>>
       /\ pc = "idle"
       /\ pc' = "idle"

\* C20: the history always has even length and alternates user and assistant
\* entries; a turn leaves it unchanged or appends exactly one user/assistant
\* pair behind the earlier entries; entries are removed only by reset, which
\* empties it; and the list sent to the model is the system prompt, the
\* whole history in order, and the new user message.
C20_HistoryAlternatesAndGrowsByPairs == []HistoryShape /\ [][HistoryStep]_vars

C20_Witness ==
    /\ pc = "done"
    /\ Len(history0) = 2
    /\ Len(conversation_history) = 4
    /\ Len(messages) = 4
    /\ messages[2] = conversation_history[1]
    /\ messages[3] = conversation_history[2]

====
